---- MODULE Spec2Model ----
(***************************************************************************)
(* Model of go_rainbowgif (main.go): the per-frame palette remap           *)
(* (prepareFrame) and the goroutine pool of main that applies it to every  *)
(* output frame and joins on an unbuffered channel.                        *)
(*                                                                         *)
(* Indices are the source's 0-based indices; a Go slice is a sequence and  *)
(* At(s, i) is s[i].  A colour channel of colorful.Color (a float in       *)
(* [0,1]) is kept as an integer number of 1/65535 units.                   *)
(***************************************************************************)
EXTENDS Integers, Sequences, FiniteSets, TLC

\* ------------------------------------------------------------------ bounds
MaxSrcFrames == 2
MaxLoopCount == 2
MaxThreads == 2
MaxPalette == 2
MaxWork == 4
MaxGradient == 7
MaxCPU == 4
MaxArgs == 3

\* ------------------------------------------------------------ slice helpers
At(s, i) == s[i + 1]

InRange(s, i) == i >= 0 /\ i < Len(s)

SetAt(s, i, v) == [s EXCEPT ![i + 1] = v]

Min(a, b) == IF a < b THEN a ELSE b

Max(a, b) == IF a > b THEN a ELSE b

\* ------------------------------------------------------------------ colours
\* color.RGBA as stored in a decoded GIF palette (8-bit, alpha-premultiplied).
RGBA8(r, g, b, a) == [kind |-> "RGBA", R |-> r, G |-> g, B |-> b, A |-> a]

\* color.NRGBA literal of prepareFrame.
NRGBA8(r, g, b, a) == [kind |-> "NRGBA", R |-> r, G |-> g, B |-> b, A |-> a]

\* pixel.RGBA() of a color.RGBA: each 8-bit channel c becomes c | c<<8 = 257*c.
RGBA16(pixel) ==
  [r |-> pixel.R * 257, g |-> pixel.G * 257, b |-> pixel.B * 257, a |-> pixel.A * 257]

\* r*0xffff/a in the source's uint32; numerator and denominator are both
\* multiples of 257 here, which is divided out first to stay inside TLC's
\* integers (the quotient is the same).
Unpremultiply(c, a) == ((c \div 257) * 65535) \div (a \div 257)

\* colorful.MakeColor: fails on alpha 0, otherwise divides the alpha out.
MakeColor(pixel) ==
  LET c == RGBA16(pixel) IN
    IF c.a = 0
      THEN [ok |-> FALSE, color |-> <<0, 0, 0>>]
      ELSE [ok |-> TRUE,
            color |-> <<Unpremultiply(c.r, c.a), Unpremultiply(c.g, c.a),
                        Unpremultiply(c.b, c.a)>>]

\* colorful.Color.Clamped: every channel into [0,1].
Clamped(c) == [k \in 1..3 |-> Max(0, Min(65535, c[k]))]

\* colorful.Color.RGB255: uint8(c*255 + 0.5) per channel.
RGB255(c) == [k \in 1..3 |-> (c[k] * 255 + 32767) \div 65535]

\* blendColor(overlay, base): equal-weight mix of the two colours.
blendColor(overlay, base) == [k \in 1..3 |-> (overlay[k] + base[k]) \div 2]

\* remapPixel without the `alpha == 0 || !ok` short-circuit.
remapPixelAlways(pixel, overlayColor) ==
  LET rgb == RGB255(blendColor(overlayColor, Clamped(MakeColor(pixel).color)))
  IN NRGBA8(rgb[1], rgb[2], rgb[3], 255)

\* remapPixel carrying the source entry's alpha into the blended entry.
remapPixelKeepAlpha(pixel, overlayColor) ==
  LET alpha == RGBA16(pixel).a
      made == MakeColor(pixel)
  IN IF alpha = 0 \/ ~made.ok
       THEN pixel
       ELSE LET rgb == RGB255(blendColor(overlayColor, Clamped(made.color)))
            IN NRGBA8(rgb[1], rgb[2], rgb[3], pixel.A)

\* One iteration of the palette loop of prepareFrame (main.go 30-48).
remapPixel(pixel, overlayColor) ==
  LET alpha == RGBA16(pixel).a
      made == MakeColor(pixel)
  IN IF alpha = 0 \/ ~made.ok
       THEN pixel
       ELSE LET rgb == RGB255(blendColor(overlayColor, Clamped(made.color)))
            IN NRGBA8(rgb[1], rgb[2], rgb[3], 255)

\* The nil interface value of a fresh []color.Color.
NilColor == [kind |-> "nil", R |-> 0, G |-> 0, B |-> 0, A |-> 0]

\* ------------------------------------------------------------------- frames
\* new(image.Paletted): a non-nil *image.Paletted (isNil marks the nil
\* pointer) with the nil pixel slice (Pix = 0) and an empty palette.
NewPaletted == [isNil |-> FALSE, Pix |-> 0, Stride |-> 0, Rect |-> 0, Palette |-> <<>>]

\* prepareFrame lines 24-27: share the geometry, allocate the palette.
prepareGeometry(src, dst) ==
  [dst EXCEPT !.Pix = src.Pix, !.Stride = src.Stride, !.Rect = src.Rect,
              !.Palette = [k \in 1..Len(src.Palette) |-> NilColor]]

\* prepareFrame lines 29-49: dst.Palette[pixelIndex] is assigned for every index
\* of src.Palette; dst.Palette is the slice the frame holds at that moment.
fillPalette(src, dst, overlayColor) ==
  [dst EXCEPT !.Palette =
     [k \in 1..Len(dst.Palette) |->
        IF k <= Len(src.Palette) THEN remapPixel(src.Palette[k], overlayColor)
                                 ELSE dst.Palette[k]]]

\* The first dst.Palette[pixelIndex] that is out of range panics.
fillPanics(src, dst) == Len(dst.Palette) < Len(src.Palette)

\* prepareFrame(src, dst, overlayColor) run without interference.
prepareFrame(src, dst, overlayColor) ==
  fillPalette(src, prepareGeometry(src, dst), overlayColor)

\* ------------------------------------------------------------------ gradient
\* parseGradientColors(""): the ROYGBV default (main.go 71-78).
Rainbow ==
  << <<65535, 0, 0>>, <<65535, 32639, 0>>, <<65535, 65535, 0>>,
     <<0, 65535, 0>>, <<0, 0, 65535>>, <<35723, 0, 65535>> >>

\* The digits fmt's %x accepts, with their values.
HexChars ==
  <<"0", "1", "2", "3", "4", "5", "6", "7", "8", "9", "a", "b", "c", "d", "e", "f",
    "A", "B", "C", "D", "E", "F">>

IsHex(c) == \E i \in 1..Len(HexChars) : HexChars[i] = c

HexVal(c) ==
  LET i == CHOOSE j \in 1..Len(HexChars) : HexChars[j] = c
  IN IF i <= 16 THEN i - 1 ELSE i - 7

\* One %1x or %02x of fmt.Sscanf at 1-based position pos of s: the hex digits
\* found there, at most `width` of them, at least one.
ScanField(s, pos, width) ==
  LET run == {k \in 0..width :
               \A j \in 0..(k - 1) : pos + j <= Len(s) /\ IsHex(s[pos + j])}
      k == CHOOSE m \in run : \A o \in run : o <= m
  IN [ok |-> k >= 1,
      value |-> IF k = 2 THEN 16 * HexVal(s[pos]) + HexVal(s[pos + 1])
                ELSE IF k = 1 THEN HexVal(s[pos]) ELSE 0,
      next |-> pos + k]

\* colorful.Hex("#" + hex): the 3-digit form when the whole string has length
\* 4 (channels in fifteenths), the 2-digits-per-channel form otherwise; three
\* channels must be scanned, what follows them is not looked at.
Hex(hex) ==
  LET width == IF Len(hex) + 1 = 4 THEN 1 ELSE 2
      unit == IF width = 1 THEN 4369 ELSE 257
      r == ScanField(hex, 1, width)
      g == ScanField(hex, r.next, width)
      b == ScanField(hex, g.next, width)
  IN IF r.ok /\ g.ok /\ b.ok
       THEN [ok |-> TRUE, color |-> <<r.value * unit, g.value * unit, b.value * unit>>]
       ELSE [ok |-> FALSE, color |-> <<0, 0, 0>>]

\* strings.Split(s, ","): the pieces between the commas, empty pieces kept.
RECURSIVE Split(_)
Split(s) ==
  IF \A i \in 1..Len(s) : s[i] # ","
    THEN <<s>>
    ELSE LET c == CHOOSE i \in 1..Len(s) : s[i] = "," /\ \A j \in 1..(i - 1) : s[j] # ","
         IN <<SubSeq(s, 1, c - 1)>> \o Split(SubSeq(s, c + 1, Len(s)))

\* parseGradientColors with no built-in default: an empty colour list for "".
parseGradientColorsNoDefault(gradientColors) ==
  LET colorHexes == IF Len(gradientColors) # 0 THEN Split(gradientColors) ELSE <<>>
      parsed == [i \in 1..Len(colorHexes) |-> Hex(colorHexes[i])]
  IN IF \E i \in 1..Len(parsed) : ~parsed[i].ok
       THEN [err |-> TRUE, colors |-> <<>>]
       ELSE [err |-> FALSE, colors |-> [i \in 1..Len(parsed) |-> parsed[i].color]]

\* parseGradientColors (main.go 56-82): err is the returned error being non-nil.
parseGradientColors(gradientColors) ==
  IF Len(gradientColors) # 0
    THEN LET colorHexes == Split(gradientColors)
             parsed == [i \in 1..Len(colorHexes) |-> Hex(colorHexes[i])]
         IN IF \E i \in 1..Len(parsed) : ~parsed[i].ok
              THEN [err |-> TRUE, colors |-> <<>>]
              ELSE [err |-> FALSE, colors |-> [i \in 1..Len(parsed) |-> parsed[i].color]]
    ELSE [err |-> FALSE, colors |-> Rainbow]

\* runtime.NumCPU()/2, the default of the "threads" flag (main.go 91).
DefaultThreads(numCPU) == numCPU \div 2

\* gradient.generate(frameCount) of newGradient(colors, true): frameCount
\* colours, colour i at position i/frameCount of the closed path through the
\* control colours, interpolated linearly inside its segment.
generate(colors, frameCount) ==
  [i \in 1..frameCount |->
     LET pos == (i - 1) * Len(colors)
         seg == pos \div frameCount
         rem == pos % frameCount
         c1 == At(colors, seg)
         c2 == At(colors, (seg + 1) % Len(colors))
     IN [k \in 1..3 |-> c1[k] + ((c2[k] - c1[k]) * rem) \div frameCount]]

\* ------------------------------------------------------------- decoded input
Transparent == RGBA8(0, 0, 0, 0)
OpaqueRed == RGBA8(255, 0, 0, 255)
HalfGreen == RGBA8(0, 64, 0, 128)
OverBright == RGBA8(200, 10, 10, 100)

PixelSet == {Transparent, OpaqueRed, HalfGreen, OverBright}

\* Source frame k of the decoded GIF: its own pixel buffer (Pix is the
\* buffer's identity), geometry and palette.
SourcePalette(k) ==
  IF k % 3 = 0 THEN <<Transparent, OpaqueRed>>
  ELSE IF k % 3 = 1 THEN <<HalfGreen>>
  ELSE <<OverBright, Transparent, HalfGreen>>

SourceFrame(k) ==
  [isNil |-> FALSE, Pix |-> k + 1, Stride |-> 4 + k, Rect |-> 10 + k,
   Palette |-> SourcePalette(k)]

\* gif.DecodeAll result for a file of n frames.
Decoded(n) ==
  [Image |-> [k \in 1..n |-> SourceFrame(k - 1)],
   Delay |-> [k \in 1..n |-> 5 + k],
   Disposal |-> [k \in 1..n |-> k % 3]]

\* -------------------------------------------------------------------- state
VARIABLES
  threads,               \* flag "threads"
  loopCount,             \* flag "loop_count"
  img,                   \* the decoded *gif.GIF
  frameCount,
  newFrames,
  overlayColors,
  framesPerThread,
  frameIndex,            \* captured by every goroutine
  normalizedFrameIndex,  \* captured by every goroutine
  barrier,
  launched,              \* i of the launching loop (main.go 155)
  pcMain,                \* position of main
  pc,                    \* position of each goroutine
  processed,             \* each goroutine's local counter
  loc,                   \* each goroutine's evaluated arguments and temporaries
  newDelay,
  newDisposal,
  panicked,              \* a goroutine hit a run-time panic: the process is gone
  writeCount,            \* instrument: prepareFrame calls per output slot (2 = several)
  slotWriters,           \* instrument: goroutines that wrote each output slot
  users,                 \* instrument: goroutines that accessed each captured cursor
  written,               \* instrument: whether a goroutine stored to each captured cursor
  previous,              \* instrument: the output frames of an earlier run on this input
  defaulted,             \* the "threads" flag was not given
  gradientColors,        \* flag "gradient", a string as its characters
  nArgs,                 \* len(positionalArgs)
  colors,                \* the parsed control colours
  opened,                \* files the process has opened so far
  openFiles,             \* files open right now
  outWritten,            \* the encoder wrote to the output file
  messages,              \* lines printed
  exitCode               \* -1 while the process runs

vars ==
  <<threads, loopCount, img, frameCount, newFrames, overlayColors, framesPerThread,
    frameIndex, normalizedFrameIndex, barrier, launched, pcMain, pc, processed, loc,
    newDelay, newDisposal, panicked, writeCount, slotWriters, users, written, previous,
    defaulted, gradientColors, nArgs, colors, opened, openFiles, outWritten, messages,
    exitCode>>

process == <<colors, opened, openFiles, outWritten, messages, exitCode>>

inputs == <<threads, loopCount, previous, defaulted, gradientColors, nArgs, process>>

mainLocals == <<frameCount, overlayColors, framesPerThread, newDelay, newDisposal>>

instruments == <<writeCount, slotWriters, users, written>>

slots == <<writeCount, slotWriters>>

Workers == 0..(threads - 1)

NoLocals == [src |-> 0, dst |-> 0, overlay |-> 0, tmp |-> 0]

NoUsers == [frameIndex |-> {}, normalizedFrameIndex |-> {}]

NotWritten == [frameIndex |-> FALSE, normalizedFrameIndex |-> FALSE]

\* State when main reaches line 140: flags validated, input decoded and closed.
Init ==
  /\ threads \in 1..MaxThreads
  /\ loopCount \in 1..MaxLoopCount
  /\ \E n \in 1..MaxSrcFrames : img = Decoded(n)
  /\ threads * Len(img.Image) * loopCount <= MaxWork
  /\ frameCount = 0
  /\ newFrames = <<>>
  /\ overlayColors = <<>>
  /\ framesPerThread = 0
  /\ frameIndex = 0
  /\ normalizedFrameIndex = 0
  /\ barrier = 0
  /\ launched = 0
  /\ pcMain = "alloc"
  /\ pc = [w \in Workers |-> "idle"]
  /\ processed = [w \in Workers |-> 0]
  /\ loc = [w \in Workers |-> NoLocals]
  /\ newDelay = <<>>
  /\ newDisposal = <<>>
  /\ panicked = FALSE
  /\ writeCount = <<>>
  /\ slotWriters = <<>>
  /\ users = NoUsers
  /\ written = NotWritten
  /\ previous = <<>>
  /\ defaulted = FALSE
  /\ gradientColors = <<>>
  /\ nArgs = 2
  /\ colors = parseGradientColors(gradientColors).colors
  /\ opened = {"input"}
  /\ openFiles = {}
  /\ outWritten = FALSE
  /\ messages = 0
  /\ exitCode = -1

\* --------------------------------------------------------------------- main
\* Allocate sizing the output by the source frames alone, loop_count forgotten.
AllocateNoLoop ==
  /\ pcMain = "alloc" /\ ~panicked
  /\ frameCount' = Len(img.Image) * loopCount
  /\ newFrames' = [i \in 1..Len(img.Image) |-> NewPaletted]
  /\ overlayColors' = generate(colors, frameCount')
  /\ framesPerThread' = Len(img.Image) \div threads + 1
  /\ barrier' = 0
  /\ frameIndex' = 0
  /\ normalizedFrameIndex' = 0
  /\ launched' = 0
  /\ writeCount' = [i \in 1..frameCount' |-> 0]
  /\ slotWriters' = [i \in 1..frameCount' |-> {}]
  /\ pcMain' = "spawn"
  /\ UNCHANGED <<inputs, img, pc, processed, loc, newDelay, newDisposal, panicked,
                 users, written>>

\* main.go 140-154: output frames, overlay colours, the shared cursors.
Allocate ==
  /\ pcMain = "alloc" /\ ~panicked
  /\ frameCount' = Len(img.Image) * loopCount
  /\ newFrames' = [i \in 1..frameCount' |-> NewPaletted]
  /\ overlayColors' = generate(colors, frameCount')
  /\ framesPerThread' = Len(img.Image) \div threads + 1
  /\ barrier' = 0
  /\ frameIndex' = 0
  /\ normalizedFrameIndex' = 0
  /\ launched' = 0
  /\ writeCount' = [i \in 1..frameCount' |-> 0]
  /\ slotWriters' = [i \in 1..frameCount' |-> {}]
  /\ pcMain' = "spawn"
  /\ UNCHANGED <<inputs, img, pc, processed, loc, newDelay, newDisposal, panicked,
                 users, written>>

\* main.go 155-180: one `go func(base int)` per iteration.
Launch ==
  /\ pcMain = "spawn" /\ ~panicked
  /\ launched < threads
  /\ pc' = [pc EXCEPT ![launched] = "loop"]
  /\ processed' = [processed EXCEPT ![launched] = 0]
  /\ launched' = launched + 1
  /\ pcMain' = IF launched' < threads THEN "spawn" ELSE "barrier"
  /\ UNCHANGED <<inputs, img, newFrames, frameIndex, normalizedFrameIndex, barrier,
                 mainLocals, loc, panicked, instruments>>

\* main.go 183-184 with line 178: the unbuffered channel hands one goroutine's
\* `ch <- 1` to `barrier += <-ch`.
Receive(w) ==
  /\ pcMain = "barrier" /\ ~panicked
  /\ barrier # threads
  /\ pc[w] = "send"
  /\ barrier' = barrier + 1
  /\ pc' = [pc EXCEPT ![w] = "done"]
  /\ UNCHANGED <<inputs, img, newFrames, frameIndex, normalizedFrameIndex, launched,
                 pcMain, mainLocals, processed, loc, panicked, instruments>>

\* The barrier loop leaving after the first signal.
PassBarrierEarly ==
  /\ pcMain = "barrier" /\ ~panicked
  /\ barrier >= 1
  /\ pcMain' = "assemble"
  /\ UNCHANGED <<inputs, img, newFrames, frameIndex, normalizedFrameIndex, barrier,
                 launched, mainLocals, pc, processed, loc, panicked, instruments>>

\* main.go 183: the loop condition fails, main leaves the barrier loop.
PassBarrier ==
  /\ pcMain = "barrier" /\ ~panicked
  /\ barrier = threads
  /\ pcMain' = "assemble"
  /\ UNCHANGED <<inputs, img, newFrames, frameIndex, normalizedFrameIndex, barrier,
                 launched, mainLocals, pc, processed, loc, panicked, instruments>>

\* Assemble repeating the last delay and disposal instead of cycling.
AssembleNoCycle ==
  /\ pcMain = "assemble" /\ ~panicked
  /\ newDelay' =
       [i \in 1..Len(newFrames) |-> At(img.Delay, Min(i - 1, Len(img.Delay) - 1))]
  /\ newDisposal' =
       [i \in 1..Len(newFrames) |-> At(img.Disposal, Min(i - 1, Len(img.Disposal) - 1))]
  /\ img' = [Image |-> newFrames, Delay |-> newDelay', Disposal |-> newDisposal']
  /\ pcMain' = "encode"
  /\ UNCHANGED <<inputs, newFrames, frameCount, overlayColors, framesPerThread,
                 frameIndex, normalizedFrameIndex, barrier, launched, pc, processed,
                 loc, panicked, instruments>>

\* main.go 187-199: cycle delays and disposals, install the new frames.
Assemble ==
  /\ pcMain = "assemble" /\ ~panicked
  /\ newDelay' = [i \in 1..Len(newFrames) |-> At(img.Delay, (i - 1) % Len(img.Delay))]
  /\ newDisposal' =
       [i \in 1..Len(newFrames) |-> At(img.Disposal, (i - 1) % Len(img.Disposal))]
  /\ img' = [Image |-> newFrames, Delay |-> newDelay', Disposal |-> newDisposal']
  /\ pcMain' = "encode"
  /\ UNCHANGED <<inputs, newFrames, frameCount, overlayColors, framesPerThread,
                 frameIndex, normalizedFrameIndex, barrier, launched, pc, processed,
                 loc, panicked, instruments>>

\* --------------------------------------------------------------- goroutines
\* Every step is one access to a variable the closure captured; the goroutine's
\* own tests and assignments ride along with it.
Noted(name, w) == [users EXCEPT ![name] = @ \cup {w}]

Stored(name) == [written EXCEPT ![name] = TRUE]

Goto(w, label) == pc' = [pc EXCEPT ![w] = label]

\* main.go 158-161: the loop condition, then the read of frameIndex.
LoopTest(w) ==
  /\ pc[w] = "loop" /\ ~panicked
  /\ IF processed[w] < framesPerThread
       THEN /\ users' = Noted("frameIndex", w)
            /\ IF frameIndex >= Len(newFrames) THEN Goto(w, "send") ELSE Goto(w, "norm")
       ELSE /\ users' = users
            /\ Goto(w, "send")
  /\ UNCHANGED <<inputs, img, newFrames, frameIndex, normalizedFrameIndex, barrier,
                 launched, pcMain, mainLocals, processed, loc, panicked, slots, written>>

\* main.go 163: the read of normalizedFrameIndex.
NormTest(w) ==
  /\ pc[w] = "norm" /\ ~panicked
  /\ users' = Noted("normalizedFrameIndex", w)
  /\ IF normalizedFrameIndex >= Len(img.Image) THEN Goto(w, "reset") ELSE Goto(w, "argSrc")
  /\ UNCHANGED <<inputs, img, newFrames, frameIndex, normalizedFrameIndex, barrier,
                 launched, pcMain, mainLocals, processed, loc, panicked, slots, written>>

\* main.go 164
NormReset(w) ==
  /\ pc[w] = "reset" /\ ~panicked
  /\ normalizedFrameIndex' = 0
  /\ users' = Noted("normalizedFrameIndex", w)
  /\ written' = Stored("normalizedFrameIndex")
  /\ Goto(w, "argSrc")
  /\ UNCHANGED <<inputs, img, newFrames, frameIndex, barrier, launched, pcMain,
                 mainLocals, processed, loc, panicked, slots>>

\* main.go 169: img.Image[normalizedFrameIndex], bounds-checked.
EvalSrc(w) ==
  /\ pc[w] = "argSrc" /\ ~panicked
  /\ users' = Noted("normalizedFrameIndex", w)
  /\ IF InRange(img.Image, normalizedFrameIndex)
       THEN /\ loc' = [loc EXCEPT ![w].src = normalizedFrameIndex]
            /\ Goto(w, "argDst")
            /\ panicked' = FALSE
       ELSE /\ panicked' = TRUE
            /\ UNCHANGED <<loc, pc>>
  /\ UNCHANGED <<inputs, img, newFrames, frameIndex, normalizedFrameIndex, barrier,
                 launched, pcMain, mainLocals, processed, slots, written>>

\* main.go 170: newFrames[frameIndex], bounds-checked.
EvalDst(w) ==
  /\ pc[w] = "argDst" /\ ~panicked
  /\ users' = Noted("frameIndex", w)
  /\ IF InRange(newFrames, frameIndex)
       THEN /\ loc' = [loc EXCEPT ![w].dst = frameIndex]
            /\ Goto(w, "argOverlay")
            /\ panicked' = FALSE
       ELSE /\ panicked' = TRUE
            /\ UNCHANGED <<loc, pc>>
  /\ UNCHANGED <<inputs, img, newFrames, frameIndex, normalizedFrameIndex, barrier,
                 launched, pcMain, mainLocals, processed, slots, written>>

\* main.go 171: overlayColors[frameIndex], bounds-checked.
EvalOverlay(w) ==
  /\ pc[w] = "argOverlay" /\ ~panicked
  /\ users' = Noted("frameIndex", w)
  /\ IF InRange(overlayColors, frameIndex)
       THEN /\ loc' = [loc EXCEPT ![w].overlay = frameIndex]
            /\ Goto(w, "geometry")
            /\ panicked' = FALSE
       ELSE /\ panicked' = TRUE
            /\ UNCHANGED <<loc, pc>>
  /\ UNCHANGED <<inputs, img, newFrames, frameIndex, normalizedFrameIndex, barrier,
                 launched, pcMain, mainLocals, processed, slots, written>>

\* main.go 24-27 inside the call of line 168.
PrepareGeometry(w) ==
  /\ pc[w] = "geometry" /\ ~panicked
  /\ LET src == At(img.Image, loc[w].src)
         dst == At(newFrames, loc[w].dst)
     IN IF dst.isNil
          THEN /\ panicked' = TRUE
               /\ UNCHANGED <<newFrames, pc, slots>>
          ELSE /\ newFrames' = SetAt(newFrames, loc[w].dst, prepareGeometry(src, dst))
               /\ writeCount' = SetAt(writeCount, loc[w].dst, Min(2, At(writeCount, loc[w].dst) + 1))
               /\ slotWriters' =
                    SetAt(slotWriters, loc[w].dst, At(slotWriters, loc[w].dst) \cup {w})
               /\ Goto(w, "palette")
               /\ panicked' = FALSE
  /\ UNCHANGED <<inputs, img, frameIndex, normalizedFrameIndex, barrier, launched,
                 pcMain, mainLocals, processed, loc, users, written>>

\* PreparePalette with dst.Palette aliasing src.Palette: the remapped entries
\* land in the source frame as well.
PreparePaletteAliased(w) ==
  /\ pc[w] = "palette" /\ ~panicked
  /\ LET src == At(img.Image, loc[w].src)
         dst == At(newFrames, loc[w].dst)
         overlayColor == At(overlayColors, loc[w].overlay)
         out == fillPalette(src, dst, overlayColor)
     IN /\ newFrames' = SetAt(newFrames, loc[w].dst, out)
        /\ img' = [img EXCEPT !.Image = SetAt(img.Image, loc[w].src,
                                               [src EXCEPT !.Palette = out.Palette])]
        /\ Goto(w, "incFrame")
        /\ loc' = [loc EXCEPT ![w] = NoLocals]
  /\ UNCHANGED <<inputs, frameIndex, normalizedFrameIndex, barrier, launched,
                 pcMain, mainLocals, processed, panicked, instruments>>

\* main.go 29-49 inside the call of line 168.
PreparePalette(w) ==
  /\ pc[w] = "palette" /\ ~panicked
  /\ LET src == At(img.Image, loc[w].src)
         dst == At(newFrames, loc[w].dst)
         overlayColor == At(overlayColors, loc[w].overlay)
     IN IF fillPanics(src, dst)
          THEN /\ panicked' = TRUE
               /\ UNCHANGED <<newFrames, pc, loc>>
          ELSE /\ newFrames' = SetAt(newFrames, loc[w].dst, fillPalette(src, dst, overlayColor))
               /\ Goto(w, "incFrame")
               /\ loc' = [loc EXCEPT ![w] = NoLocals]
               /\ panicked' = FALSE
  /\ UNCHANGED <<inputs, img, frameIndex, normalizedFrameIndex, barrier, launched,
                 pcMain, mainLocals, processed, instruments>>

\* main.go 173, frameIndex++ : the load ...
IncFrameLoad(w) ==
  /\ pc[w] = "incFrame" /\ ~panicked
  /\ loc' = [loc EXCEPT ![w].tmp = frameIndex]
  /\ users' = Noted("frameIndex", w)
  /\ Goto(w, "incFrameStore")
  /\ UNCHANGED <<inputs, img, newFrames, frameIndex, normalizedFrameIndex, barrier,
                 launched, pcMain, mainLocals, processed, panicked, slots, written>>

\* ... and the store.
IncFrameStore(w) ==
  /\ pc[w] = "incFrameStore" /\ ~panicked
  /\ frameIndex' = loc[w].tmp + 1
  /\ users' = Noted("frameIndex", w)
  /\ written' = Stored("frameIndex")
  /\ loc' = [loc EXCEPT ![w].tmp = 0]
  /\ Goto(w, "incNorm")
  /\ UNCHANGED <<inputs, img, newFrames, normalizedFrameIndex, barrier, launched,
                 pcMain, mainLocals, processed, panicked, slots>>

\* main.go 174, normalizedFrameIndex++ : the load ...
IncNormLoad(w) ==
  /\ pc[w] = "incNorm" /\ ~panicked
  /\ loc' = [loc EXCEPT ![w].tmp = normalizedFrameIndex]
  /\ users' = Noted("normalizedFrameIndex", w)
  /\ Goto(w, "incNormStore")
  /\ UNCHANGED <<inputs, img, newFrames, frameIndex, normalizedFrameIndex, barrier,
                 launched, pcMain, mainLocals, processed, panicked, slots, written>>

\* ... and the store; the loop body ends without touching `processed`.
IncNormStore(w) ==
  /\ pc[w] = "incNormStore" /\ ~panicked
  /\ normalizedFrameIndex' = loc[w].tmp + 1
  /\ users' = Noted("normalizedFrameIndex", w)
  /\ written' = Stored("normalizedFrameIndex")
  /\ loc' = [loc EXCEPT ![w].tmp = 0]
  /\ Goto(w, "loop")
  /\ UNCHANGED <<inputs, img, newFrames, frameIndex, barrier, launched, pcMain,
                 mainLocals, processed, panicked, slots>>

\* ------------------------------------------------------------ specification
Next ==
  \/ Allocate
  \/ Launch
  \/ \E w \in Workers : Receive(w)
  \/ PassBarrier
  \/ Assemble
  \/ \E w \in Workers : LoopTest(w)
  \/ \E w \in Workers : NormTest(w)
  \/ \E w \in Workers : NormReset(w)
  \/ \E w \in Workers : EvalSrc(w)
  \/ \E w \in Workers : EvalDst(w)
  \/ \E w \in Workers : EvalOverlay(w)
  \/ \E w \in Workers : PrepareGeometry(w)
  \/ \E w \in Workers : PreparePalette(w)
  \/ \E w \in Workers : IncFrameLoad(w)
  \/ \E w \in Workers : IncFrameStore(w)
  \/ \E w \in Workers : IncNormLoad(w)
  \/ \E w \in Workers : IncNormStore(w)

Spec == Init /\ [][Next]_vars

\* The goroutine scheduler is preemptive and starves no runnable goroutine:
\* main and every goroutine keep taking their steps while they have one.
MainStep == Allocate \/ Launch \/ PassBarrier \/ Assemble

WorkerStep(w) ==
  /\ w \in Workers
  /\ \/ Receive(w)
     \/ LoopTest(w) \/ NormTest(w) \/ NormReset(w)
     \/ EvalSrc(w) \/ EvalDst(w) \/ EvalOverlay(w)
     \/ PrepareGeometry(w) \/ PreparePalette(w)
     \/ IncFrameLoad(w) \/ IncFrameStore(w) \/ IncNormLoad(w) \/ IncNormStore(w)

FairSpec ==
  /\ Spec
  /\ WF_vars(MainStep)
  /\ \A w \in 0..(MaxThreads - 1) : WF_vars(WorkerStep(w))

\* ------------------------------------------------- the scheduler run twice
\* Lines 140-185 once more on the same decoded input, flags and gradient, the
\* first run's output frames kept aside for comparison.
Rerun ==
  /\ pcMain = "assemble" /\ ~panicked
  /\ previous = <<>>
  /\ previous' = newFrames
  /\ frameCount' = 0
  /\ newFrames' = <<>>
  /\ overlayColors' = <<>>
  /\ framesPerThread' = 0
  /\ frameIndex' = 0
  /\ normalizedFrameIndex' = 0
  /\ barrier' = 0
  /\ launched' = 0
  /\ pcMain' = "alloc"
  /\ pc' = [w \in Workers |-> "idle"]
  /\ loc' = [w \in Workers |-> NoLocals]
  /\ writeCount' = <<>>
  /\ slotWriters' = <<>>
  /\ users' = NoUsers
  /\ written' = NotWritten
  /\ UNCHANGED <<threads, loopCount, img, processed, newDelay, newDisposal, panicked,
                 defaulted, gradientColors, nArgs, process>>

NextTwice == Next \/ Rerun

SpecTwice == Init /\ [][NextTwice]_vars

\* ------------------------------------------------ prepareFrame on its own
Palettes == UNION {[1..n -> PixelSet] : n \in 0..MaxPalette}

OverlaySet == {At(Rainbow, 0), At(Rainbow, 3), At(Rainbow, 5), <<0, 0, 0>>}

\* The moment the only goroutine of a one-frame run enters prepareFrame, for
\* every palette of the source frame and every overlay colour.
InitFrame ==
  /\ threads = 1
  /\ loopCount = 1
  /\ \E p \in Palettes :
       img = [Decoded(1) EXCEPT !.Image = <<[SourceFrame(0) EXCEPT !.Palette = p]>>]
  /\ frameCount = 1
  /\ newFrames = <<NewPaletted>>
  /\ \E c \in OverlaySet : overlayColors = <<c>>
  /\ framesPerThread = 2
  /\ frameIndex = 0
  /\ normalizedFrameIndex = 0
  /\ barrier = 0
  /\ launched = 1
  /\ pcMain = "barrier"
  /\ pc = [w \in Workers |-> "geometry"]
  /\ processed = [w \in Workers |-> 0]
  /\ loc = [w \in Workers |-> NoLocals]
  /\ newDelay = <<>>
  /\ newDisposal = <<>>
  /\ panicked = FALSE
  /\ writeCount = <<0>>
  /\ slotWriters = <<{}>>
  /\ users = [frameIndex |-> {0}, normalizedFrameIndex |-> {0}]
  /\ written = NotWritten
  /\ previous = <<>>
  /\ defaulted = FALSE
  /\ gradientColors = <<>>
  /\ nArgs = 2
  /\ colors = parseGradientColors(gradientColors).colors
  /\ opened = {"input"}
  /\ openFiles = {}
  /\ outWritten = FALSE
  /\ messages = 0
  /\ exitCode = -1

NextFrame ==
  \/ \E w \in Workers : PrepareGeometry(w)
  \/ \E w \in Workers : PreparePalette(w)

SpecFrame == InitFrame /\ [][NextFrame]_vars

\* ------------------------------------------------------ main, start to end
scheduler ==
  <<frameCount, newFrames, overlayColors, framesPerThread, frameIndex,
    normalizedFrameIndex, barrier, launched, pc, processed, loc, newDelay, newDisposal,
    panicked, writeCount, slotWriters, users, written, previous>>

flags == <<threads, loopCount, defaulted, gradientColors, nArgs>>

\* fmt.Println(...); os.Exit(1)
Fail ==
  /\ messages' = messages + 1
  /\ exitCode' = 1
  /\ pcMain' = "exited"

NoImage == [Image |-> <<>>, Delay |-> <<>>, Disposal |-> <<>>]

\* CheckArgs letting a missing positional argument through.
CheckArgsAtMost ==
  /\ pcMain = "args"
  /\ IF nArgs > 2
       THEN Fail
       ELSE pcMain' = "input" /\ UNCHANGED <<messages, exitCode>>
  /\ UNCHANGED <<flags, img, scheduler, colors, opened, openFiles, outWritten>>

\* main.go 101-104
CheckThreads ==
  /\ pcMain = "threads"
  /\ IF threads <= 0
       THEN Fail
       ELSE pcMain' = "gradient" /\ UNCHANGED <<messages, exitCode>>
  /\ UNCHANGED <<flags, img, scheduler, colors, opened, openFiles, outWritten>>

\* main.go 106-110
ParseGradient ==
  /\ pcMain = "gradient"
  /\ LET result == parseGradientColors(gradientColors)
     IN /\ colors' = result.colors
        /\ IF result.err
             THEN Fail
             ELSE pcMain' = "loop" /\ UNCHANGED <<messages, exitCode>>
  /\ UNCHANGED <<flags, img, scheduler, opened, openFiles, outWritten>>

\* main.go 112-115
CheckLoopCount ==
  /\ pcMain = "loop"
  /\ IF loopCount < 1
       THEN Fail
       ELSE pcMain' = "args" /\ UNCHANGED <<messages, exitCode>>
  /\ UNCHANGED <<flags, img, scheduler, colors, opened, openFiles, outWritten>>

\* main.go 117-122
CheckArgs ==
  /\ pcMain = "args"
  /\ IF nArgs # 2
       THEN Fail
       ELSE pcMain' = "input" /\ UNCHANGED <<messages, exitCode>>
  /\ UNCHANGED <<flags, img, scheduler, colors, opened, openFiles, outWritten>>

\* main.go 127-131: os.Open(input) fails or succeeds.
OpenInput ==
  /\ pcMain = "input"
  /\ \/ Fail /\ UNCHANGED <<opened, openFiles>>
     \/ /\ opened' = opened \cup {"input"}
        /\ openFiles' = openFiles \cup {"input"}
        /\ pcMain' = "decode"
        /\ UNCHANGED <<messages, exitCode>>
  /\ UNCHANGED <<flags, img, scheduler, colors, outWritten>>

\* main.go 133-138: gif.DecodeAll fails, or yields n frames and the file is
\* closed.
Decode ==
  /\ pcMain = "decode"
  /\ \/ Fail /\ UNCHANGED <<img, openFiles>>
     \/ /\ \E n \in 1..MaxSrcFrames :
             /\ threads * n * loopCount <= MaxWork
             /\ img' = Decoded(n)
        /\ openFiles' = openFiles \ {"input"}
        /\ pcMain' = "alloc"
        /\ UNCHANGED <<messages, exitCode>>
  /\ UNCHANGED <<flags, scheduler, colors, opened, outWritten>>

\* main.go 201-205: os.OpenFile(output, ...) fails or succeeds.
OpenOutput ==
  /\ pcMain = "encode"
  /\ \/ Fail /\ UNCHANGED <<opened, openFiles>>
     \/ /\ opened' = opened \cup {"output"}
        /\ openFiles' = openFiles \cup {"output"}
        /\ pcMain' = "write"
        /\ UNCHANGED <<messages, exitCode>>
  /\ UNCHANGED <<flags, img, scheduler, colors, outWritten>>

\* main.go 207-215: gif.EncodeAll fails (having written something or not), or
\* succeeds, the file is closed and main returns.
Encode ==
  /\ pcMain = "write"
  /\ \/ /\ Fail
        /\ outWritten' \in BOOLEAN
        /\ UNCHANGED openFiles
     \/ /\ outWritten' = TRUE
        /\ openFiles' = openFiles \ {"output"}
        /\ pcMain' = "returned"
        /\ exitCode' = 0
        /\ UNCHANGED messages
  /\ UNCHANGED <<flags, img, scheduler, colors, opened>>

GradientInputs ==
  { <<>>,
    <<"f", "0", "0">>,
    <<"0", "0", "0", "0", "f", "f", ",", "f", "0", "f">>,
    <<"g", "0", "0">>,
    <<"f", "f", "0", "0", "0", "0", ",">> }

\* State after flag.Parse (main.go 99), for every command line.
InitMain ==
  /\ defaulted \in BOOLEAN
  /\ IF defaulted
       THEN \E numCPU \in 1..MaxCPU : threads = DefaultThreads(numCPU)
       ELSE threads \in (-1)..MaxThreads
  /\ loopCount \in 0..MaxLoopCount
  /\ gradientColors \in GradientInputs
  /\ nArgs \in 0..MaxArgs
  /\ img = NoImage
  /\ frameCount = 0
  /\ newFrames = <<>>
  /\ overlayColors = <<>>
  /\ framesPerThread = 0
  /\ frameIndex = 0
  /\ normalizedFrameIndex = 0
  /\ barrier = 0
  /\ launched = 0
  /\ pcMain = "threads"
  /\ pc = [w \in Workers |-> "idle"]
  /\ processed = [w \in Workers |-> 0]
  /\ loc = [w \in Workers |-> NoLocals]
  /\ newDelay = <<>>
  /\ newDisposal = <<>>
  /\ panicked = FALSE
  /\ writeCount = <<>>
  /\ slotWriters = <<>>
  /\ users = NoUsers
  /\ written = NotWritten
  /\ previous = <<>>
  /\ colors = <<>>
  /\ opened = {}
  /\ openFiles = {}
  /\ outWritten = FALSE
  /\ messages = 0
  /\ exitCode = -1

NextMain ==
  \/ CheckThreads
  \/ ParseGradient
  \/ CheckLoopCount
  \/ CheckArgs
  \/ OpenInput
  \/ Decode
  \/ Next
  \/ OpenOutput
  \/ Encode

SpecMain == InitMain /\ [][NextMain]_vars

\* ------------------------------------------- parseGradientColors on its own
Alphabet == {"0", "f", "g", ","}

GradientStrings == UNION {[1..n -> Alphabet] : n \in 0..MaxGradient}

\* main at line 106, for every gradient string over the alphabet.
InitParse ==
  /\ defaulted = FALSE
  /\ threads = 1
  /\ loopCount = 1
  /\ gradientColors \in GradientStrings
  /\ nArgs = 2
  /\ img = NoImage
  /\ frameCount = 0
  /\ newFrames = <<>>
  /\ overlayColors = <<>>
  /\ framesPerThread = 0
  /\ frameIndex = 0
  /\ normalizedFrameIndex = 0
  /\ barrier = 0
  /\ launched = 0
  /\ pcMain = "gradient"
  /\ pc = [w \in Workers |-> "idle"]
  /\ processed = [w \in Workers |-> 0]
  /\ loc = [w \in Workers |-> NoLocals]
  /\ newDelay = <<>>
  /\ newDisposal = <<>>
  /\ panicked = FALSE
  /\ writeCount = <<>>
  /\ slotWriters = <<>>
  /\ users = NoUsers
  /\ written = NotWritten
  /\ previous = <<>>
  /\ colors = <<>>
  /\ opened = {}
  /\ openFiles = {}
  /\ outWritten = FALSE
  /\ messages = 0
  /\ exitCode = -1

NextParse == ParseGradient

SpecParse == InitParse /\ [][NextParse]_vars

\* =================================================================== claims
Joined == pcMain \in {"assemble", "encode"}

Cursors == {"frameIndex", "normalizedFrameIndex"}

\* What slot i (0-based) holds when source frame i mod len(img.Image) is
\* remapped with overlay colour i and nothing interferes.
ExpectedFrame(i) ==
  prepareFrame(At(img.Image, i % Len(img.Image)), NewPaletted, At(overlayColors, i))

\* C1 - partition completeness: with 1 <= threads <= frameCount, once the join
\* has returned every output slot was written by exactly one prepareFrame call.
PartitionComplete ==
  (Joined /\ threads <= frameCount) =>
    \A i \in 1..frameCount : writeCount[i] = 1

\* C2 - no shared mutable cursor: no captured variable that a goroutine stored
\* to is accessed by a second goroutine, and no output slot is written by two
\* goroutines.
NoSharedCursor ==
  /\ \A name \in Cursors : written[name] => Cardinality(users[name]) <= 1
  /\ \A i \in 1..Len(slotWriters) : Cardinality(slotWriters[i]) <= 1

\* C3 - slot association: a prepareFrame call that writes slot i was given
\* source frame i mod len(img.Image) and overlay colour i, and after the join
\* slot i holds the remap of that source frame with that overlay colour.
SlotAssociation ==
  /\ \A w \in Workers :
       pc[w] \in {"geometry", "palette"} =>
         /\ loc[w].src = loc[w].dst % Len(img.Image)
         /\ loc[w].overlay = loc[w].dst
  /\ pcMain = "assemble" =>
       \A i \in 1..frameCount : newFrames[i] = ExpectedFrame(i - 1)

\* C4 - determinism: a second run of the scheduler on the same input ends with
\* the same output frames as the first.
Determinism ==
  (pcMain = "assemble" /\ previous # <<>>) => newFrames = previous

\* C5 - no error path in the worker loop: whenever an argument of prepareFrame
\* is about to be evaluated its index is in range, and no goroutine panics.
IndicesInBounds ==
  /\ ~panicked
  /\ \A w \in Workers :
       /\ pc[w] = "argSrc" => normalizedFrameIndex < Len(img.Image)
       /\ pc[w] \in {"argDst", "argOverlay"} =>
            /\ frameIndex < Len(newFrames)
            /\ frameIndex < Len(overlayColors)

\* C6 - join barrier: the count of the barrier is the number of goroutines
\* that have signalled; main is past the barrier loop only when all `threads`
\* goroutines have; a goroutine that reached its send never runs the loop
\* again, and no output frame changes once main is past the barrier.
BarrierCounts ==
  /\ barrier = Cardinality({w \in Workers : pc[w] = "done"})
  /\ Joined => (barrier = threads /\ \A w \in Workers : pc[w] = "done")

SignalIsLast ==
  \A w \in Workers :
    /\ pc[w] \in {"send", "done"} => pc'[w] \in {"send", "done"}
    /\ pc[w] = "done" => pc'[w] = "done"

NoWriteAfterJoin == Joined => newFrames' = newFrames

\* C6 - join barrier: the three parts above, in every state and every step.
JoinBarrier == []BarrierCounts /\ [][SignalIsLast /\ NoWriteAfterJoin]_vars

JoinBarrierWitness ==
  /\ pcMain = "encode"
  /\ threads = 2
  /\ \A i \in 1..frameCount : writeCount[i] >= 1
  /\ \A w \in Workers : pc[w] = "done"

\* C7 - termination: under fair scheduling main eventually passes the barrier
\* (every goroutine has then left its loop and signalled).
Termination == <>Joined

\* C8 - transparency preservation: once prepareFrame has returned, every
\* palette entry of the source frame whose alpha is zero or whose conversion
\* fails sits unchanged at the same index of the output palette.
PassedThrough(pixel) == RGBA16(pixel).a = 0 \/ ~MakeColor(pixel).ok

\* C8 - transparency preservation, for the frame prepareFrame just wrote.
TransparencyPreserved ==
  \A w \in Workers :
    pc[w] = "incFrame" =>
      LET src == At(img.Image, 0)
          dst == At(newFrames, 0)
      IN \A k \in 1..Len(src.Palette) :
           PassedThrough(src.Palette[k]) =>
             (k <= Len(dst.Palette) /\ dst.Palette[k] = src.Palette[k])

TransparencyWitness ==
  /\ pc[0] = "incFrame"
  /\ LET src == At(img.Image, 0)
         dst == At(newFrames, 0)
     IN /\ \E k \in 1..Len(src.Palette) : PassedThrough(src.Palette[k])
        /\ \E k \in 1..Len(src.Palette) :
             ~PassedThrough(src.Palette[k]) /\ dst.Palette[k] # src.Palette[k]

\* C9 - geometry and palette size: after the join every output frame has the
\* pixel buffer, stride and rectangle of a source frame, a palette of that
\* frame's length, and no palette index left unassigned.
GeometryOf(dst, src) ==
  /\ dst.Pix = src.Pix
  /\ dst.Stride = src.Stride
  /\ dst.Rect = src.Rect
  /\ Len(dst.Palette) = Len(src.Palette)
  /\ \A k \in 1..Len(dst.Palette) : dst.Palette[k] # NilColor

\* C9 - geometry and palette size of every output frame after the join.
GeometryPreserved ==
  pcMain = "assemble" =>
    \A i \in 1..frameCount :
      \E k \in 1..Len(img.Image) : GeometryOf(newFrames[i], img.Image[k])

\* C10 - length invariant: overlay colours and output frames number
\* frameCount = len(source frames) * loopCount, no output slot is nil when the
\* join returns, and the new delay and disposal arrays have that length too.
LengthInvariant ==
  /\ pcMain \in {"spawn", "barrier", "assemble"} =>
       /\ frameCount = Len(img.Image) * loopCount
       /\ Len(overlayColors) = frameCount
       /\ Len(newFrames) = frameCount
  /\ Joined => \A i \in 1..Len(newFrames) : ~newFrames[i].isNil
  /\ pcMain = "encode" =>
       /\ Len(newFrames) = frameCount
       /\ Len(overlayColors) = frameCount
       /\ Len(newDelay) = frameCount
       /\ Len(newDisposal) = frameCount
       /\ Len(img.Image) = frameCount

LengthWitness ==
  /\ pcMain = "encode"
  /\ loopCount = 2
  /\ frameCount = 4
  /\ Len(newDelay) = 4

\* C11 - metadata cycling: output delay i is source delay i mod len(delays),
\* output disposal i is source disposal i mod len(disposals), for every output
\* index, and these arrays are the ones installed in img.
MetadataCycling ==
  pcMain = "encode" =>
    LET source == Decoded(frameCount \div loopCount)
    IN /\ img.Delay = newDelay
       /\ img.Disposal = newDisposal
       /\ \A i \in 0..(frameCount - 1) :
            /\ At(newDelay, i) = At(source.Delay, i % Len(source.Delay))
            /\ At(newDisposal, i) = At(source.Disposal, i % Len(source.Disposal))

MetadataWitness ==
  /\ pcMain = "encode"
  /\ loopCount = 2
  /\ frameCount = 4
  /\ At(newDelay, 3) = At(newDelay, 1)
  /\ At(newDelay, 3) # At(newDelay, 2)

\* C12 - argument errors abort before any processing: with a thread count
\* below 1, an invalid gradient colour, a loop count below 1 or a number of
\* positional arguments other than 2, the process opens no file, starts no
\* goroutine, writes no output and prints at most one line; when it has exited
\* it has printed exactly one line and the exit code is 1.
ArgError ==
  \/ threads <= 0
  \/ parseGradientColors(gradientColors).err
  \/ loopCount < 1
  \/ nArgs # 2

ArgumentErrorsAbort ==
  ArgError =>
    /\ pcMain \in {"threads", "gradient", "loop", "args", "exited"}
    /\ opened = {}
    /\ openFiles = {}
    /\ launched = 0
    /\ \A w \in Workers : pc[w] = "idle"
    /\ newFrames = <<>>
    /\ ~outWritten
    /\ messages <= 1
    /\ pcMain = "exited" => (messages = 1 /\ exitCode = 1)

ArgumentErrorsWitness ==
  /\ pcMain = "exited"
  /\ threads >= 1
  /\ ~parseGradientColors(gradientColors).err
  /\ loopCount >= 1
  /\ nArgs = 1
  /\ messages = 1
  /\ exitCode = 1

\* C13 - codec errors release resources: at an exit with code 1 no file handle
\* is open.
ResourcesReleased == exitCode = 1 => openFiles = {}

\* C14 - static near-equal partition: the slots a goroutine processes form one
\* contiguous range and number at most framesPerThread.
SlotsOf(w) == {i \in 1..Len(slotWriters) : w \in slotWriters[i]}

Contiguous(S) == \A i \in S, j \in S : \A k \in i..j : k \in S

StaticPartition ==
  \A w \in Workers :
    /\ Cardinality(SlotsOf(w)) <= framesPerThread
    /\ Contiguous(SlotsOf(w))

\* C15 - read-only inputs: from the generation of the overlay colours to the
\* join no step changes a source frame or the overlay colour sequence.
InputsUntouched ==
  pcMain \in {"spawn", "barrier"} => (img' = img /\ overlayColors' = overlayColors)

SourceReadOnly == [][InputsUntouched]_vars

SourceReadOnlyWitness ==
  /\ pcMain = "assemble"
  /\ threads = 2
  /\ \A i \in 1..frameCount : writeCount[i] >= 1
  /\ img = Decoded(Len(img.Image))
  /\ \E i \in 1..frameCount : \E k \in 1..Len(img.Image) :
       newFrames[i].Pix = img.Image[k].Pix

\* C16 - full opacity: once prepareFrame has returned, an output palette entry
\* that was not passed through is an NRGBA of alpha 255, so every output entry
\* is its source entry or fully opaque.
FullOpacity ==
  \A w \in Workers :
    pc[w] = "incFrame" =>
      LET src == At(img.Image, 0)
          dst == At(newFrames, 0)
      IN \A k \in 1..Len(src.Palette) :
           /\ k <= Len(dst.Palette)
           /\ ~PassedThrough(src.Palette[k]) =>
                (dst.Palette[k].kind = "NRGBA" /\ dst.Palette[k].A = 255)
           /\ dst.Palette[k] = src.Palette[k] \/ dst.Palette[k].A = 255

FullOpacityWitness ==
  /\ pc[0] = "incFrame"
  /\ \E k \in 1..Len(At(img.Image, 0).Palette) :
       /\ At(img.Image, 0).Palette[k].A \notin {0, 255}
       /\ At(newFrames, 0).Palette[k].A = 255

\* C17 - gradient parsing: for a non-empty string the result is an error
\* exactly when some comma-separated token is not 6 hex digits (the empty
\* token included), and otherwise one colour per token, in token order.
SixHexDigits(token) == Len(token) = 6 /\ \A i \in 1..6 : IsHex(token[i])

GradientParsing ==
  (pcMain # "gradient" /\ gradientColors # <<>>) =>
    LET tokens == Split(gradientColors)
    IN /\ pcMain = "exited" <=> \E i \in 1..Len(tokens) : ~SixHexDigits(tokens[i])
       /\ pcMain = "loop" =>
            /\ Len(colors) = Len(tokens)
            /\ \A i \in 1..Len(tokens) : colors[i] = Hex(tokens[i]).color

\* C18 - default gradient: the empty string parses without error to the six
\* colours red, orange, yellow, green, blue, violet (channels in 1/65535).
DefaultGradient ==
  (pcMain # "gradient" /\ gradientColors = <<>>) =>
    /\ pcMain = "loop"
    /\ messages = 0
    /\ exitCode = -1
    /\ colors = << <<65535, 0, 0>>,
                   <<65535, (127 * 65535) \div 255, 0>>,
                   <<65535, 65535, 0>>,
                   <<0, 65535, 0>>,
                   <<0, 0, 65535>>,
                   <<(139 * 65535) \div 255, 0, 65535>> >>

DefaultGradientWitness ==
  /\ gradientColors = <<>>
  /\ pcMain = "loop"
  /\ Len(colors) = 6
  /\ colors[2] = <<65535, 32639, 0>>

\* C19 - default worker count: when the "threads" flag is not given, the
\* thread count that the check at main.go 101 has seen is at least 1.
DefaultThreadsValid == (defaulted /\ pcMain # "threads") => threads >= 1

\* C20 - more goroutines than slots: no goroutine fails, and once the join has
\* returned every goroutine has signalled and every slot was written by
\* exactly one prepareFrame call.
SurplusWorkers ==
  threads > frameCount =>
    /\ ~panicked
    /\ Joined =>
         /\ \A w \in Workers : pc[w] = "done"
         /\ \A i \in 1..frameCount : writeCount[i] = 1
====
